---- MODULE Spec2Model ----
(***************************************************************************)
(* Model of smtp_mailer.py: one run of SMTPMailer.send_emails.             *)
(*                                                                         *)
(* The run is a single thread of control; pc is its position.  The SMTP    *)
(* client, the console and the file system are the environment: every      *)
(* call on them is recorded (connects, closes, sends, out) and every       *)
(* outcome they can give is drawn with \E.                                  *)
(***************************************************************************)
EXTENDS Integers, Sequences, FiniteSets, TLC

VARIABLES
    pc,           \* position in send_emails
    credentials,  \* SMTPCredentials returned by ConfigLoader.load, or NoCredentials
    session,      \* state of self.client: "Unset", "Open" or "Closed"
    connects,     \* number of client.connect calls made
    closes,       \* number of times the client was closed by the scoped block
    rows,         \* the rows csv.DictReader yielded, in file order
    recipients,   \* self.recipients
    subject,      \* self.subject
    body,         \* self.body, a sequence of format-string tokens
    idx,          \* index in self.recipients of the loop's current recipient
    sends,        \* the client.send_message calls made, in order, with outcome
    out,          \* the diagnostics printed, in order
    pending,      \* exception travelling out of the scoped block, or "none"
    error,        \* exception that ended send_emails, or "none"
    result        \* what send_emails returned: "unset" until it returns

vars == <<pc, credentials, session, connects, closes, rows, recipients,
          subject, body, idx, sends, out, pending, error, result>>

-----------------------------------------------------------------------------
(* Bounds and input domains *)

MaxRows == 3

\* An address is the sequence of its lexical pieces.
AnnAddr == <<"ann", "@", "x", ".", "com">>
BobAddr == <<"bob", "@", "x", ".", "com">>
BadAddr == <<"bad-email">>
NoDotAddr == <<"eve", "@", "localhost">>
UserAddr == <<"a", "@", "b", ".", "com">>

Usernames == {UserAddr, BadAddr, NoDotAddr}

\* Rows of the recipients file: keys "recipient" and "recipient_name".
RowPool ==
    { [recipient |-> AnnAddr, recipient_name |-> "Ann"],
      [recipient |-> BadAddr, recipient_name |-> ""],
      [recipient |-> BobAddr, recipient_name |-> "Bob"],
      [recipient |-> BobAddr, recipient_name |-> ""],
      [recipient |-> NoDotAddr, recipient_name |-> "Eve"] }

RowLists == UNION { [1..n -> RowPool] : n \in 0..MaxRows }

Subjects == {"Hi"}

\* Bodies the operator may type.  A body is a sequence of tokens: a
\* replacement field ("{name}", "{nam}", "{name[0]}"), a doubled brace
\* ("{{", "}}"), a single brace ("{", "}"), or literal text.
BodyPool ==
    { <<"Hello ", "{name}", "!">>,
      <<"Hello all">>,
      <<"{name}", ", ", "{name}">>,
      <<"Set ", "{{", "x", "}}">>,
      <<"Hello ", "{">>,
      <<"Hello ", "{nam}">>,
      <<"Dear ", "{name[0]}", ".">> }

ConnectOutcomes == {"ok", "bad_code", "timeout", "refused", "auth_rejected"}

SendOutcomes == {"ok", "fail", "cancel"}

NoCredentials == [username |-> <<>>]

-----------------------------------------------------------------------------
(* Pure helpers *)

\* validate_email(x, check_deliverability=False): syntax only.  One "@",
\* a non-empty local part, a domain with a period inside it.
AtPositions(e) == { i \in 1..Len(e) : e[i] = "@" }

ValidateEmail(e) ==
    /\ Cardinality(AtPositions(e)) = 1
    /\ LET at == CHOOSE i \in AtPositions(e) : TRUE
       IN  /\ at > 1
           /\ \E d \in (at + 2)..(Len(e) - 1) : e[d] = "."

\* Every row kept, validated or not.
LoadedRecipientsUnvalidated(rs) ==
    [i \in 1..Len(rs) |->
        [name |-> rs[i].recipient_name, email |-> rs[i].recipient]]

\* A row is dropped when its address appeared in an earlier row.
LoadedRecipientsDeduplicated(rs) ==
    LET firsts == SelectSeq([i \in 1..Len(rs) |-> i],
                     LAMBDA i : /\ ValidateEmail(rs[i].recipient)
                                /\ \A j \in 1..(i - 1) :
                                      rs[j].recipient # rs[i].recipient)
    IN  [k \in 1..Len(firsts) |->
            [name |-> rs[firsts[k]].recipient_name,
             email |-> rs[firsts[k]].recipient]]

\* The loop of load_from_csv: append the rows that validate, in order.
RECURSIVE LoadedRecipients(_)
LoadedRecipients(rs) ==
    IF rs = <<>> THEN <<>>
    ELSE LET row == Head(rs)
             rest == LoadedRecipients(Tail(rs))
         IN  IF ValidateEmail(row.recipient)
             THEN <<[name |-> row.recipient_name, email |-> row.recipient]>> \o rest
             ELSE rest

\* The "Invalid email skipped" lines load_from_csv prints, in order.
RECURSIVE SkippedLines(_)
SkippedLines(rs) ==
    IF rs = <<>> THEN <<>>
    ELSE LET row == Head(rs)
             rest == SkippedLines(Tail(rs))
         IN  IF ValidateEmail(row.recipient)
             THEN rest
             ELSE <<<<"Invalid email skipped", row.recipient>>>> \o rest

\* First character of a display name, for the field "{name[0]}".
NameInitial(name) ==
    CASE name = "Ann" -> "A"
      [] name = "Bob" -> "B"
      [] name = "Eve" -> "E"
      [] OTHER -> ""

\* self.body.format(name=name), token by token from the left.  The result
\* is [exc |-> "none", text |-> the string] or [exc |-> the exception].
RECURSIVE Format(_, _)
Format(b, name) ==
    IF b = <<>> THEN [exc |-> "none", text |-> ""]
    ELSE LET t == Head(b)
             piece ==
                 CASE t = "{name}" -> [exc |-> "none", text |-> name]
                   [] t = "{{" -> [exc |-> "none", text |-> "{"]
                   [] t = "}}" -> [exc |-> "none", text |-> "}"]
                   [] t = "{" -> [exc |-> "ValueError", text |-> ""]
                   [] t = "}" -> [exc |-> "ValueError", text |-> ""]
                   [] t = "{nam}" -> [exc |-> "KeyError", text |-> ""]
                   [] t = "{name[0]}" ->
                        IF name = "" THEN [exc |-> "IndexError", text |-> ""]
                        ELSE [exc |-> "none", text |-> NameInitial(name)]
                   [] OTHER -> [exc |-> "none", text |-> t]
         IN  IF piece.exc # "none" THEN [exc |-> piece.exc, text |-> ""]
             ELSE LET rest == Format(Tail(b), name)
                  IN  IF rest.exc # "none" THEN rest
                      ELSE [exc |-> "none", text |-> piece.text \o rest.text]

\* The MIMEText message built for one recipient.
BuildMessage(text, subj, sender_email, recipient) ==
    [Subject |-> subj, From |-> sender_email, To |-> recipient.email,
     payload |-> text]

-----------------------------------------------------------------------------
(* Initial state: a fresh SMTPMailer(), before send_emails runs *)

Init ==
    /\ pc = "config"
    /\ credentials = NoCredentials
    /\ session = "Unset"
    /\ connects = 0
    /\ closes = 0
    /\ rows = <<>>
    /\ recipients = <<>>
    /\ subject = ""
    /\ body = <<>>
    /\ idx = 0
    /\ sends = <<>>
    /\ out = <<>>
    /\ pending = "none"
    /\ error = "none"
    /\ result = "unset"

\* An exception leaves send_emails: the run is over.
Raise(exc) ==
    /\ pc' = "raised"
    /\ error' = exc

-----------------------------------------------------------------------------
(* Actions *)

InvalidUsernameAccepted(username) ==
    /\ credentials' = [username |-> username]
    /\ pc' = "setup"
    /\ UNCHANGED <<out, error>>

\* The except block of ConfigLoader.load: print, then re-raise the
\* EmailNotValidError of the username.
InvalidUsername(username) ==
    /\ Raise("EmailNotValidError")
    /\ out' = out \o <<<<"Invalid SMTP username email format">>>>
    /\ UNCHANGED credentials

\* ConfigLoader.load: build the credentials, validate the username, check
\* that the recipients file exists.
LoadConfig ==
    /\ pc = "config"
    /\ \E username \in Usernames, csvIsFile \in BOOLEAN :
         IF ~ValidateEmail(username)
         THEN InvalidUsername(username)
         ELSE IF ~csvIsFile
         THEN /\ Raise("FileNotFoundError")
              /\ out' = out \o <<<<"Invalid CSV file path">>>>
              /\ UNCHANGED credentials
         ELSE /\ credentials' = [username |-> username]
              /\ pc' = "setup"
              /\ UNCHANGED <<out, error>>
    /\ UNCHANGED <<session, connects, closes, rows, recipients, subject, body,
                   idx, sends, pending, result>>

\* The exception client.connect raises for each way it can fail.
ConnectException(outcome) ==
    CASE outcome = "timeout" -> "SMTPConnectTimeoutError"
      [] outcome = "refused" -> "SMTPConnectError"
      [] outcome = "auth_rejected" -> "SMTPAuthenticationError"
      [] OTHER -> "ConnectionError"

ConnectFailedSwallowed(exc) ==
    /\ pc' = "load"
    /\ UNCHANGED error

\* The except block of _setup_client: print, then re-raise.
ConnectFailed(exc) ==
    Raise(exc)

\* SMTPMailer._setup_client: create the client and connect.  connect either
\* raises (nothing is left connected) or returns the server's response; a
\* response other than 220 raises ConnectionError on a connected client.
SetupClient ==
    /\ pc = "setup"
    /\ connects' = connects + 1
    /\ \E outcome \in ConnectOutcomes :
         CASE outcome = "ok" ->
                /\ session' = "Open"
                /\ out' = out \o <<<<"Connected to SMTP server successfully">>>>
                /\ pc' = "load"
                /\ UNCHANGED error
           [] outcome = "bad_code" ->
                /\ session' = "Open"
                /\ out' = out \o <<<<"Failed to connect to SMTP server">>>>
                /\ ConnectFailed(ConnectException(outcome))
           [] OTHER ->
                /\ session' = "Closed"
                /\ out' = out \o <<<<"Failed to connect to SMTP server">>>>
                /\ ConnectFailed(ConnectException(outcome))
    /\ UNCHANGED <<credentials, closes, rows, recipients, subject, body, idx,
                   sends, pending, result>>

\* RecipientLoader.load_from_csv, assigned to self.recipients.  Reading the
\* file may raise; otherwise every row is validated and kept or skipped.
LoadFromCsv ==
    /\ pc = "load"
    /\ \E rs \in RowLists, readable \in BOOLEAN :
         IF ~readable
         THEN /\ Raise("OSError")
              /\ UNCHANGED <<rows, recipients, out>>
         ELSE /\ rows' = rs
              /\ recipients' = LoadedRecipients(rs)
              /\ out' = out \o SkippedLines(rs)
              /\ pc' = "input"
              /\ UNCHANGED error
    /\ UNCHANGED <<credentials, session, connects, closes, subject, body, idx,
                   sends, pending, result>>

\* SMTPMailer._get_user_input: the subject line, then the body up to the
\* end marker.  input() raises EOFError when the console is closed.
GetUserInput ==
    /\ pc = "input"
    /\ \E s \in Subjects, b \in BodyPool, eof \in BOOLEAN :
         IF eof
         THEN /\ Raise("EOFError")
              /\ UNCHANGED <<subject, body>>
         ELSE /\ subject' = s
              /\ body' = b
              /\ pc' = "enter"
              /\ UNCHANGED error
    /\ UNCHANGED <<credentials, session, connects, closes, rows, recipients,
                   idx, sends, out, pending, result>>

EnterClientReconnects ==
    /\ pc = "enter"
    /\ session' = "Open"
    /\ connects' = connects + 1
    /\ out' = out \o <<<<"Sending messages to recipients">>>>
    /\ idx' = 1
    /\ pc' = "loop"
    /\ UNCHANGED <<credentials, closes, rows, recipients, subject, body, sends,
                   pending, error, result>>

\* Entering "async with self.client": the client connects only if it is not
\* connected already.  The loop starts at the first recipient.
EnterClient ==
    /\ pc = "enter"
    /\ IF session = "Open"
       THEN UNCHANGED <<session, connects>>
       ELSE /\ session' = "Open"
            /\ connects' = connects + 1
    /\ out' = out \o <<<<"Sending messages to recipients">>>>
    /\ idx' = 1
    /\ pc' = "loop"
    /\ UNCHANGED <<credentials, closes, rows, recipients, subject, body, sends,
                   pending, error, result>>

RenderFailsCaught ==
    /\ pc = "loop"
    /\ idx <= Len(recipients)
    /\ Format(body, recipients[idx].name).exc # "none"
    /\ out' = out \o <<<<"Failed to send to", recipients[idx].email>>>>
    /\ idx' = idx + 1
    /\ UNCHANGED <<credentials, session, connects, closes, rows, recipients,
                   subject, body, sends, pending, pc, error, result>>

\* One loop iteration whose body.format raises: the exception is not caught
\* in the loop and leaves the scoped block.
RenderFails ==
    /\ pc = "loop"
    /\ idx <= Len(recipients)
    /\ Format(body, recipients[idx].name).exc # "none"
    /\ pending' = Format(body, recipients[idx].name).exc
    /\ pc' = "exit"
    /\ UNCHANGED <<credentials, session, connects, closes, rows, recipients,
                   subject, body, idx, sends, out, error, result>>

SendFailedAborts(recipient) ==
    /\ pending' = "Exception"
    /\ pc' = "exit"
    /\ UNCHANGED <<out, idx, session, closes>>

SendFailedClosesSession(recipient) ==
    /\ out' = out \o <<<<"Failed to send to", recipient.email>>>>
    /\ idx' = idx + 1
    /\ session' = "Closed"
    /\ closes' = closes + 1
    /\ UNCHANGED <<pending, pc>>

SendFailedRetries(recipient) ==
    /\ out' = out \o <<<<"Failed to send to", recipient.email>>>>
    /\ UNCHANGED <<idx, pending, pc, session, closes>>

\* The except block of the loop: print the failure; the loop goes on with
\* the next recipient.
SendFailed(recipient) ==
    /\ out' = out \o <<<<"Failed to send to", recipient.email>>>>
    /\ idx' = idx + 1
    /\ UNCHANGED <<pending, pc, session, closes>>

SendCancelledSwallowed ==
    /\ idx' = idx + 1
    /\ UNCHANGED <<out, pending, pc, session, closes>>

\* A cancellation arrives at the await of send_message: CancelledError is
\* not an Exception, so the except clause does not catch it.
SendCancelled ==
    /\ pending' = "CancelledError"
    /\ pc' = "exit"
    /\ UNCHANGED <<out, idx, session, closes>>

\* One loop iteration that renders: the message is built and handed to
\* client.send_message.  An Exception from the send is printed and the loop
\* goes on; a cancellation is not an Exception and leaves the scoped block.
SendMessage ==
    /\ pc = "loop"
    /\ idx <= Len(recipients)
    /\ LET recipient == recipients[idx]
           rendered == Format(body, recipient.name)
           message == BuildMessage(rendered.text, subject,
                                   credentials.username, recipient)
       IN  /\ rendered.exc = "none"
           /\ \E outcome \in SendOutcomes :
                /\ sends' = Append(sends, [message |-> message,
                                           outcome |-> outcome,
                                           state |-> session,
                                           connection |-> connects])
                /\ CASE outcome = "ok" ->
                          /\ idx' = idx + 1
                          /\ UNCHANGED <<out, pending, pc, session, closes>>
                     [] outcome = "fail" ->
                          SendFailed(recipient)
                     [] OTHER ->
                          SendCancelled
    /\ UNCHANGED <<credentials, connects, rows, recipients, subject, body,
                   error, result>>

\* The for loop has run out of recipients.
LoopEnd ==
    /\ pc = "loop"
    /\ idx > Len(recipients)
    /\ pc' = "exit"
    /\ UNCHANGED <<credentials, session, connects, closes, rows, recipients,
                   subject, body, idx, sends, out, pending, error, result>>

\* Leaving "async with self.client", normally or by exception: the client
\* is closed.  Without an exception _dispatch_messages prints its last line
\* and send_emails returns None; otherwise the exception propagates.
ExitClient ==
    /\ pc = "exit"
    /\ session' = "Closed"
    /\ closes' = closes + 1
    /\ IF pending = "none"
       THEN /\ out' = out \o <<<<"All messages sent successfully">>>>
            /\ result' = "None"
            /\ pc' = "done"
            /\ UNCHANGED error
       ELSE /\ Raise(pending)
            /\ UNCHANGED <<out, result>>
    /\ UNCHANGED <<credentials, connects, rows, recipients, subject, body, idx,
                   sends, pending>>

Next ==
    \/ LoadConfig
    \/ SetupClient
    \/ LoadFromCsv
    \/ GetUserInput
    \/ EnterClient
    \/ RenderFails
    \/ SendMessage
    \/ LoopEnd
    \/ ExitClient

Spec == Init /\ [][Next]_vars

\* The dispatch runs on one thread of control that asyncio.run drives to
\* completion: once the scoped block is entered, every step that can be
\* taken is taken, each send call returning or raising.
FairSpec ==
    /\ Spec
    /\ WF_vars(RenderFails)
    /\ WF_vars(SendMessage)
    /\ WF_vars(LoopEnd)
    /\ WF_vars(ExitClient)

-----------------------------------------------------------------------------
(* Vocabulary of the properties *)

Terminated == pc \in {"done", "raised"}

\* The rows of the file whose address validates, in file order.
ValidRows == SelectSeq(rows, LAMBDA r : ValidateEmail(r.recipient))

\* The addresses of the rows that were rejected.
RejectedAddresses ==
    { rows[j].recipient : j \in { k \in 1..Len(rows) :
                                    ~ValidateEmail(rows[k].recipient) } }

\* The "Failed to send to" lines printed, and the sends that failed.
FailureLines == SelectSeq(out, LAMBDA l : l[1] = "Failed to send to")
FailedSends == SelectSeq(sends, LAMBDA s : s.outcome = "fail")

\* _setup_client returned normally: the session was opened.
SessionWasOpened ==
    \E i \in 1..Len(out) : out[i] = <<"Connected to SMTP server successfully">>

\* _setup_client raised: opening the session failed.
OpenFailed ==
    \E i \in 1..Len(out) : out[i] = <<"Failed to connect to SMTP server">>

\* The recipients file has been read and filtered.
RecipientsLoaded == pc \in {"input", "enter", "loop", "exit", "done"}
                    \/ (pc = "raised" /\ error \in {"EOFError", "ValueError",
                          "KeyError", "IndexError", "CancelledError"})

\* The operator has supplied the template.
TemplateSupplied == body # <<>>

DisplayNames == { r.recipient_name : r \in RowPool }

\* A template no recipient can be rendered with.
Malformed(b) == \A n \in DisplayNames : Format(b, n).exc # "none"

\* A template all of whose replacement fields are "{name}" and which has no
\* single brace.
PlainTemplate(b) ==
    \A k \in 1..Len(b) : b[k] \notin {"{", "}", "{nam}", "{name[0]}"}

\* The body with each "{name}" replaced by the name and the rest verbatim.
RECURSIVE Substituted(_, _)
Substituted(b, name) ==
    IF b = <<>> THEN ""
    ELSE (IF Head(b) = "{name}" THEN name ELSE Head(b))
         \o Substituted(Tail(b), name)

-----------------------------------------------------------------------------
(* C1: during dispatch every recipient gets exactly one send attempt, in   *)
(* list order, whatever sends fail: the k-th attempt is for the k-th       *)
(* recipient, the loop stands at the recipient after the last attempt, a   *)
(* failed send is printed and is never the reason the batch stops short,   *)
(* and a run that completes has made one attempt per recipient.            *)
C1_OneAttemptPerRecipient ==
    /\ Len(sends) <= Len(recipients)
    /\ \A i \in 1..Len(sends) : sends[i].message.To = recipients[i].email
    /\ pc = "loop" => Len(sends) = idx - 1
    /\ pc = "done" => Len(sends) = Len(recipients)
    /\ Len(FailureLines) = Len(FailedSends)
    /\ \A k \in 1..Len(FailedSends) :
          FailureLines[k] = <<"Failed to send to", FailedSends[k].message.To>>
    /\ ( /\ pc \in {"exit", "done", "raised"}
         /\ sends # <<>>
         /\ Len(sends) < Len(recipients)
         /\ sends[Len(sends)].outcome = "fail" )
       => Format(body, recipients[Len(sends) + 1].name).exc # "none"

\* A run completed in which the first send failed and the second succeeded.
C1_Witness ==
    /\ pc = "done"
    /\ Len(sends) >= 2
    /\ sends[1].outcome = "fail"
    /\ sends[2].outcome = "ok"

(* C2: in every run where the session was opened, at the end of the run    *)
(* the session is Closed and close ran exactly once.                       *)
C2_ClosedOnceOnEveryExit ==
    (Terminated /\ SessionWasOpened) => (session = "Closed" /\ closes = 1)

(* C3: if the set of valid recipients is empty, no connect attempt occurs  *)
(* at any point of the run and nothing is sent.                            *)
C3_EmptySetOpensNoSession ==
    (RecipientsLoaded /\ recipients = <<>>) => (connects = 0 /\ sends = <<>>)

(* C4: a row is in the recipient list iff its address validates; every     *)
(* element of the list is a validated address; no send goes to the address *)
(* of a rejected row.                                                      *)
C4_OnlyValidatedRecipients ==
    /\ \A i \in 1..Len(recipients) : ValidateEmail(recipients[i].email)
    /\ RecipientsLoaded =>
         /\ Len(recipients) =
              Cardinality({ j \in 1..Len(rows) : ValidateEmail(rows[j].recipient) })
         /\ \A j \in 1..Len(rows) :
              ValidateEmail(rows[j].recipient) <=>
                 \E i \in 1..Len(recipients) :
                    recipients[i] = [name |-> rows[j].recipient_name,
                                     email |-> rows[j].recipient]
    /\ \A i \in 1..Len(sends) : sends[i].message.To \notin RejectedAddresses

\* A run completed whose file held a rejected row and a valid one.
C4_Witness ==
    /\ pc = "done"
    /\ RejectedAddresses # {}
    /\ Len(rows) > Len(recipients)
    /\ Len(sends) >= 1

(* C5: if opening the session fails, the run ends with the connect error   *)
(* propagated to the caller and no send attempt is made in that run.       *)
C5_OpenFailureIsFatal ==
    OpenFailed =>
        /\ pc = "raised"
        /\ error \in { ConnectException(o) : o \in ConnectOutcomes \ {"ok"} }
        /\ sends = <<>>

\* A run ended by a rejected authentication.
C5_Witness ==
    /\ OpenFailed
    /\ pc = "raised"
    /\ error = "SMTPAuthenticationError"

\* A step in which a send was attempted and raised an Exception.
C6_SendFailureStep ==
    /\ Len(sends') = Len(sends) + 1
    /\ sends'[Len(sends')].outcome = "fail"

(* C6: a failed send leaves the session as it was: Open before and after,  *)
(* neither closed nor connected again by the failure handling, and the     *)
(* next recipient's send goes over the same open connection.               *)
C6_FailedSendKeepsSession ==
    /\ [][C6_SendFailureStep =>
            /\ session = "Open"
            /\ session' = session
            /\ closes' = closes
            /\ connects' = connects]_vars
    /\ [](\A i \in 1..(Len(sends) - 1) :
             sends[i].outcome = "fail" =>
                /\ sends[i + 1].state = "Open"
                /\ sends[i + 1].connection = sends[i].connection)

\* A send was made after a failed one, and the session is still open.
C6_Witness ==
    /\ Len(sends) >= 2
    /\ sends[1].outcome = "fail"
    /\ session = "Open"

(* C7: in every run with a malformed template the run fails and no send    *)
(* attempt has been made, whatever the recipient list is.                  *)
C7_MalformedTemplateIsFatal ==
    (Terminated /\ TemplateSupplied /\ Malformed(body)) =>
        (pc = "raised" /\ sends = <<>>)

(* C8: a completed run has produced an aggregate result with attempted = N,*)
(* succeeded + |failures| = N and failures naming, in order, exactly the   *)
(* recipients whose send failed.                                           *)
C8_AggregateResult ==
    pc = "done" =>
        /\ result # "None"
        /\ result.attempted = Len(recipients)
        /\ result.succeeded + Len(result.failures) = Len(recipients)
        /\ Len(result.failures) = Len(FailedSends)
        /\ \A k \in 1..Len(FailedSends) :
              result.failures[k][1].email = FailedSends[k].message.To

(* C9: the send attempts follow the valid rows of the file, in file order  *)
(* and without deduplication: the k-th attempt goes to the address of the  *)
(* k-th valid row, and a completed run has one attempt per valid row.      *)
C9_SendsFollowValidRows ==
    /\ Len(sends) <= Len(ValidRows)
    /\ \A k \in 1..Len(sends) : sends[k].message.To = ValidRows[k].recipient
    /\ pc = "done" => Len(sends) = Len(ValidRows)

\* A run completed with two attempts to the same address around a rejected
\* row.
C9_Witness ==
    /\ pc = "done"
    /\ Len(rows) = 3
    /\ ~ValidateEmail(rows[2].recipient)
    /\ Len(sends) = 2
    /\ sends[1].message.To = sends[2].message.To

(* C10: every message handed to send is addressed to its recipient, comes  *)
(* from the SMTP username, carries the template's subject, and has as body *)
(* the template body with "{name}" replaced by the display name and        *)
(* everything else verbatim.                                               *)
C10_RenderedMessage ==
    PlainTemplate(body) =>
        \A i \in 1..Len(sends) :
            /\ sends[i].message.To = recipients[i].email
            /\ sends[i].message.From = credentials.username
            /\ sends[i].message.Subject = subject
            /\ sends[i].message.payload = Substituted(body, recipients[i].name)

-----------------------------------------------------------------------------
\* ConfigLoader.load rejected the SMTP username.
UsernameRejected ==
    \E i \in 1..Len(out) : out[i] = <<"Invalid SMTP username email format">>

(* C11: an SMTP username that fails validation ends the run at load time   *)
(* with the validation error, before any connect attempt, any recipient    *)
(* loading and any send, and no run goes on with such a username; a        *)
(* recipient address that fails validation only drops its row: the load    *)
(* completes and the run goes on.                                          *)
C11_UsernameFatalRecipientNot ==
    /\ UsernameRejected =>
         /\ pc = "raised"
         /\ error = "EmailNotValidError"
         /\ connects = 0
         /\ session = "Unset"
         /\ rows = <<>>
         /\ recipients = <<>>
         /\ sends = <<>>
    /\ error = "EmailNotValidError" => UsernameRejected
    /\ credentials # NoCredentials => ValidateEmail(credentials.username)
    /\ pc \notin {"config", "raised"} => credentials # NoCredentials
    /\ RejectedAddresses # {} =>
         /\ RecipientsLoaded
         /\ error # "EmailNotValidError"
         /\ Len(recipients) = Len(ValidRows)

\* A run ended by the rejection of its SMTP username.
C11_Witness ==
    /\ UsernameRejected
    /\ pc = "raised"
    /\ error = "EmailNotValidError"

\* The run was ended by a batch-fatal error: opening the session failed, or
\* rendering the malformed template raised.
EndedByFatalError ==
    /\ pc = "raised"
    /\ \/ OpenFailed
       \/ /\ TemplateSupplied
          /\ Malformed(body)
          /\ error \in {"ValueError", "KeyError", "IndexError"}

(* C12: whenever a run ends with a batch-fatal error (response not a       *)
(* success code, authentication rejected, connect failed, malformed        *)
(* template), no session is left open at termination.                      *)
C12_FatalErrorLeavesNoSessionOpen ==
    EndedByFatalError => session # "Open"

\* The status the process ends with: asyncio.run returns when send_emails
\* returns and lets its exception through otherwise.
ExitStatus == IF pc = "done" THEN 0 ELSE 1

\* A batch-fatal condition occurred: opening the session failed, or the
\* operator supplied a malformed template.
BatchFatalCondition ==
    \/ OpenFailed
    \/ (TemplateSupplied /\ Malformed(body))

(* C13: the run ends with a non-zero status iff a batch-fatal condition    *)
(* occurred (session open failure or malformed template); a run whose      *)
(* session opened and whose sends failed, some or all, ends with status    *)
(* zero, every failed recipient address having been printed.               *)
C13_ExitStatus ==
    Terminated =>
        /\ (ExitStatus # 0) <=> BatchFatalCondition
        /\ (pc = "done" /\ FailedSends # <<>>) =>
              /\ ExitStatus = 0
              /\ \A k \in 1..Len(FailedSends) :
                    \E i \in 1..Len(out) :
                       out[i] = <<"Failed to send to", FailedSends[k].message.To>>

\* The batch was aborted by a cancellation.
Cancelled == \E i \in 1..Len(sends) : sends[i].outcome = "cancel"

(* C14: when the batch is aborted by a cancellation, which the except      *)
(* clause of the loop does not catch, the session is still closed, exactly *)
(* once, before the run ends; from the cancellation on no send attempt is  *)
(* made, neither to a further recipient nor again to an earlier one; and   *)
(* the cancelled attempt is the last one, each recipient before it having  *)
(* had one attempt.                                                        *)
C14_CancellationClosesAndStops ==
    /\ [](Cancelled =>
            /\ sends[Len(sends)].outcome = "cancel"
            /\ "CancelledError" \in {pending, error}
            /\ \A i \in 1..(Len(sends) - 1) : sends[i].outcome # "cancel"
            /\ \A i \in 1..Len(sends) : sends[i].message.To = recipients[i].email
            /\ pc \in {"exit", "raised"}
            /\ pc = "raised" => (session = "Closed" /\ closes = 1))
    /\ [][Cancelled => (sends' = sends /\ idx' = idx)]_vars

\* A run ended by a cancellation with recipients left over, its session
\* closed.
C14_Witness ==
    /\ pc = "raised"
    /\ error = "CancelledError"
    /\ Len(sends) >= 2
    /\ Len(sends) < Len(recipients)
    /\ session = "Closed"

(* C15: the steps of a run come in the order: recipients loaded, template  *)
(* supplied, session opened, sends, session closed; the session is never   *)
(* open while the recipients are loaded or the operator's input is read.   *)
C15_PipelineOrder ==
    /\ TemplateSupplied => RecipientsLoaded
    /\ connects > 0 => (RecipientsLoaded /\ TemplateSupplied)
    /\ sends # <<>> => connects > 0
    /\ closes > 0 => (connects > 0 /\ pc \in {"done", "raised"})
    /\ pc \in {"load", "input"} => session # "Open"

(* C16: at most one session is open in every state of a run and all sends  *)
(* of a batch go over it: the client is connected once, by the setup, the  *)
(* dispatch scope enters the connected client without connecting again,    *)
(* and every send is made on that open connection.                         *)
C16_OneSessionReused ==
    /\ connects <= 1
    /\ session = "Open" => (connects = 1 /\ closes = 0)
    /\ \A i \in 1..Len(sends) :
          /\ sends[i].state = "Open"
          /\ sends[i].connection = 1

\* Two sends have been made in the dispatch scope, over the setup's session.
C16_Witness ==
    /\ Len(sends) >= 2
    /\ session = "Open"
    /\ connects = 1

RenderErrors == {"ValueError", "KeyError", "IndexError"}

\* Rendering raised for some recipient of the loop.
RenderRaised == pending \in RenderErrors \/ error \in RenderErrors

\* The recipients the body cannot be rendered for.
Unrenderable ==
    { i \in 1..Len(recipients) : Format(body, recipients[i].name).exc # "none" }

(* C17: only the send call is isolated per recipient.  The loop gets past  *)
(* no recipient whose message cannot be rendered: at the first such        *)
(* recipient k the exception of body.format leaves the loop, recipients    *)
(* k..N get no send attempt, the attempts made to recipients 1..k-1 stay   *)
(* as they were, and the run ends with that exception and the session      *)
(* closed once.                                                            *)
C17_RenderErrorEndsLoop ==
    /\ [](\A i \in Unrenderable :
            /\ Len(sends) < i
            /\ pc = "loop" => idx <= i
            /\ pc # "done")
    /\ [](RenderRaised =>
            LET k == Len(sends) + 1
            IN  /\ k \in Unrenderable
                /\ \A i \in 1..(k - 1) : i \notin Unrenderable
                /\ Format(body, recipients[k].name).exc \in {pending, error}
                /\ \A i \in 1..(k - 1) : sends[i].message.To = recipients[i].email
                /\ pc \in {"exit", "raised"}
                /\ pc = "raised" => (session = "Closed" /\ closes = 1))
    /\ [][RenderRaised => sends' = sends]_vars

\* A run ended by the render error of a later recipient, after a send to
\* an earlier one, its session closed.
C17_Witness ==
    /\ pc = "raised"
    /\ error = "IndexError"
    /\ Len(sends) >= 1
    /\ Len(sends) < Len(recipients)
    /\ session = "Closed"
    /\ closes = 1

(* C18: once dispatch has started, whatever sends succeed or fail, the run *)
(* eventually ends with the session Closed, and it never makes more send   *)
(* attempts than there are recipients.                                     *)
C18_DispatchTerminates ==
    /\ (pc = "loop") ~> (Terminated /\ session = "Closed" /\ closes = 1)
    /\ [](Len(sends) <= Len(recipients))

\* A dispatch over several recipients, with a failed send among them, has
\* ended with the session closed.
C18_Witness ==
    /\ pc = "done"
    /\ session = "Closed"
    /\ Len(recipients) >= 2
    /\ Len(sends) = Len(recipients)
    /\ FailedSends # <<>>

====
